---- MODULE Spec2Model ----
(***************************************************************************)
(* use-state-singleton: a state container (StateSingleton) holding one     *)
(* immutable snapshot and an insertion-ordered Set of listeners, and the   *)
(* React hook useStateSingleton that binds a component to a container.     *)
(*                                                                         *)
(* A snapshot is a record with a reference identity (ref) and the fields   *)
(* of the test's counter state {count, otherField}.  The listener Set is   *)
(* the ECMAScript Set: a list of entries in insertion order, where delete  *)
(* empties an entry in place and a running for-of iterator walks the list  *)
(* by index, so that entries removed before they are reached are skipped   *)
(* and entries appended during the walk are reached.                       *)
(***************************************************************************)
EXTENDS Integers, Sequences, FiniteSets, TLC

\* ------------------------------------------------------------- bounds
MaxVal == 1        \* field values range over 0..MaxVal
MaxEdits == 2      \* writes one updater performs on the draft
MaxListeners == 2  \* distinct plain listener function references
MaxEntries == 3    \* entries (live or emptied) of a Set while it is iterated
MaxDepth == 2      \* update calls in progress (outer call plus nested ones)
MaxHandles == 1    \* never-called unsubscribe functions kept per listener
MaxBindings == 2   \* components that call useStateSingleton
MaxTodos == 2      \* todo objects in the todos array of the todo state

Containers == {"A", "B"}
StoreContainers == {"A"}
Fields == {"count", "otherField"}
Values == 0..MaxVal

VARIABLES
  state,      \* StateSingleton.state, per container
  listeners,  \* StateSingleton.listeners, per container: the Set's entry list
  stack,      \* update calls in progress, innermost last: the for-of iterators
  exc,        \* an exception is propagating up the update calls in progress
  handles,    \* unsubscribe functions the application holds, per listener
  comp,       \* the components calling useStateSingleton: props and hook state
  todo,       \* StateSingleton.state of a container of the todo state (nested)
  order,      \* history: the listeners with an active registration, oldest first
  ev          \* history: what the last step did

vars == <<state, listeners, stack, exc, handles, comp, todo, order, ev>>

\* ------------------------------------------------------- listeners, Set
Fn(i) == [kind |-> "fn", id |-> i, gen |-> 0, sel |-> "none"]
NoListener == [kind |-> "none", id |-> 0, gen |-> 0, sel |-> "none"]
Fns == {Fn(i) : i \in 1..MaxListeners}

Entry(l) == [l |-> l, live |-> TRUE]

\* Set.prototype.has
Has(ls, l) == \E i \in 1..Len(ls) : ls[i].live /\ ls[i].l = l

SetOf(ls) == {ls[i].l : i \in {j \in 1..Len(ls) : ls[j].live}}

SetAddFront(ls, l) == IF Has(ls, l) THEN ls ELSE <<Entry(l)>> \o ls

SetAddReuse(ls, l) ==
  IF Has(ls, l) THEN ls
  ELSE IF \E i \in 1..Len(ls) : ~ls[i].live
       THEN [ls EXCEPT ![CHOOSE i \in 1..Len(ls) :
                           ~ls[i].live /\ \A k \in 1..(i - 1) : ls[k].live] = Entry(l)]
       ELSE Append(ls, Entry(l))

\* Set.prototype.add: appends a new entry unless the value is present
SetAdd(ls, l) == IF Has(ls, l) THEN ls ELSE Append(ls, Entry(l))

SetDeleteNone(ls, l) == ls

\* Set.prototype.delete: empties the entry, the list keeps its positions
SetDelete(ls, l) ==
  [i \in 1..Len(ls) |-> IF ls[i].l = l THEN [ls[i] EXCEPT !.live = FALSE] ELSE ls[i]]

\* Emptied entries are observable only to a running iterator: with no
\* iterator on the Set they are dropped.
Iterating(stk, c) == \E i \in 1..Len(stk) : stk[i].c = c
Settle(stk, c, ls) ==
  IF Iterating(stk, c) THEN ls ELSE SelectSeq(ls, LAMBDA e : e.live)

NextAny(ls, i) == IF i <= Len(ls) THEN i ELSE 0
SkipFirst(ls, i) == IF i + 1 <= Len(ls) THEN i + 1 ELSE 0

\* The for-of iterator's next(): the first non-empty entry at or after
\* position i, 0 when the iterator is exhausted.
NextLive(ls, i) ==
  IF \E j \in i..Len(ls) : ls[j].live
  THEN CHOOSE j \in i..Len(ls) : ls[j].live /\ \A k \in i..(j - 1) : ~ls[k].live
  ELSE 0

\* ------------------------------------------------------------ snapshots
Snap(r, cnt, oth) == [ref |-> r, count |-> cnt, otherField |-> oth]
NoSnap == Snap(-1, 0, 0)

Writes == [f : Fields, v : Values]
RECURSIVE SeqsUpTo(_, _)
SeqsUpTo(S, n) ==
  IF n = 0 THEN {<<>>}
  ELSE LET shorter == SeqsUpTo(S, n - 1)
       IN shorter \cup {Append(s, x) : s \in {t \in shorter : Len(t) = n - 1}, x \in S}
Updaters == SeqsUpTo(Writes, MaxEdits)

\* immer: the draft of `base`, and the set trap of a draft.  A write of the
\* value the field already holds to an unmodified draft changes nothing;
\* any other write marks the draft modified and lands in its copy.
Draft(base) == [modified |-> FALSE, count |-> base.count, otherField |-> base.otherField]

DraftSetAlways(d, w) == [[d EXCEPT ![w.f] = w.v] EXCEPT !.modified = TRUE]

DraftSet(d, w) ==
  IF ~d.modified /\ d[w.f] = w.v THEN d
  ELSE [[d EXCEPT ![w.f] = w.v] EXCEPT !.modified = TRUE]

RECURSIVE RunUpdater(_, _)
RunUpdater(d, u) ==
  IF u = <<>> THEN d ELSE RunUpdater(DraftSet(d, Head(u)), Tail(u))

\* immer produce(base, cb): the base itself when the draft was not modified,
\* otherwise a new object (reference r) holding the draft's fields.
Produce(base, u, r) ==
  LET d == RunUpdater(Draft(base), u)
  IN IF d.modified THEN Snap(r, d.count, d.otherField) ELSE base

\* References in use; a new object gets a reference distinct from all of them.
LiveRefs ==
  {state[c].ref : c \in Containers} \cup {stack[i].produced : i \in 1..Len(stack)}
FreshRef ==
  CHOOSE r \in 0..(Cardinality(LiveRefs) + 1) :
    r \notin LiveRefs /\ \A q \in 0..(r - 1) : q \in LiveRefs

NotifiesAlways(prev, next) == TRUE

\* update: `if (this.state !== prevState)`
Notifies(prev, next) == next.ref # prev.ref

\* ------------------------------------------------- update calls in progress
\* A frame is one update call whose for-of loop is running: its container,
\* the iterator position, and history about the call.
Range(s) == {s[i] : i \in 1..Len(s)}
Frame(c, snap, reg) ==
  [c |-> c, idx |-> 1, produced |-> snap.ref,
   reg |-> reg,             \* listeners registered when update was called
   pending |-> reg,         \* those of reg not invoked yet during the call
   bad |-> FALSE,           \* one of reg was invoked twice, or with another argument
   clean |-> TRUE,          \* no listener touched the container during the call
   threw |-> FALSE,
   visited |-> {}]          \* listeners invoked in this wave under their current registration
NoFrame == [Frame("A", NoSnap, {}) EXCEPT !.c = "none"]

Outermost == stack[1]

\* the innermost update call: the one whose loop is running
Top == stack[Len(stack)]
Idle == stack = <<>> /\ ~exc
WavingDespiteError == stack # <<>>

\* the loop of the innermost update call runs: an exception ends it
Waving == stack # <<>> /\ ~exc

\* A listener call is seen by every update call in progress on the container.
NoteInvoked(f, c, l, arg, innermost) ==
  IF f.c # c THEN f
  ELSE [f EXCEPT
         !.pending = @ \ {l},
         !.bad = @ \/ (l \in f.reg /\ (l \notin f.pending \/ arg.ref # f.produced)),
         !.visited = IF innermost THEN @ \cup {l} ELSE @]

Invoked(stk, c, l, arg, i) ==
  [k \in 1..Len(stk) |->
     IF k = Len(stk)
     THEN [NoteInvoked(stk[k], c, l, arg, TRUE) EXCEPT !.idx = i + 1]
     ELSE NoteInvoked(stk[k], c, l, arg, FALSE)]

Touched(stk) == [k \in 1..Len(stk) |-> [stk[k] EXCEPT !.clean = FALSE]]
Forget(stk, c, l) ==
  [k \in 1..Len(stk) |->
     IF stk[k].c = c THEN [stk[k] EXCEPT !.visited = @ \ {l}] ELSE stk[k]]

\* What a step did, observed on the variables before and after it: lsAfter,
\* snapAfter and stkAfter are the container's Set, its snapshot and the stack
\* after the step.  call is the update call that ended in the step, if any.
Event(op, c, l, invoked, lsAfter, snapAfter, stkAfter) ==
  [op |-> op, c |-> c, l |-> l, invoked |-> invoked,
   registered |-> l \in Range(order[c]),          \* l was registered before the step
   inSetAfter |-> Has(lsAfter, l),
   ordered |-> TRUE, subscribed |-> TRUE,
   sameRegistry |-> SetOf(lsAfter) = SetOf(listeners[c]),
   sameState |-> snapAfter.ref = state[c].ref,
   wave |-> Len(stkAfter) = Len(stack) + 1,        \* a notification wave started
   repeated |-> FALSE, noedit |-> FALSE, writes |-> 0, error |-> FALSE,
   call |-> NoFrame,
   b |-> 0, quiet |-> FALSE, eq |-> "none", changed |-> FALSE, eqEqual |-> FALSE,
   renders |-> 0, sameShown |-> TRUE, showsNew |-> FALSE,
   exact |-> TRUE, shared |-> TRUE, touched |-> {},
   current |-> TRUE]

\* An updater makes no observable edit when every write stores the value
\* the field already holds.
NoEdit(base, u) == \A i \in 1..Len(u) : u[i].v = base[u[i].f]

Without(s, x) == SelectSeq(s, LAMBDA y : y # x)

\* l is called in the innermost wave after every listener registered before it
Ordered(f, ord, l) ==
  \A i \in 1..Len(ord), j \in 1..Len(ord) :
    (i < j /\ ord[j] = l) => ord[i] \in f.visited

\* --------------------------------------------------------------- container
ListenNeverThrows(ls, l) == FALSE

\* listen(listener): the invariant throws when the listener is in the Set,
\* otherwise the listener is added and an unsubscribe function returned.
ListenThrows(ls, l) == Has(ls, l)

KeepHandle(h, keep) == IF keep THEN [h EXCEPT !.fresh = @ + 1] ELSE h

\* The unsubscribe function `() => this.listeners.delete(listener)`; the
\* application calls one it holds: one never called (repeated = FALSE) or
\* one it has called before.
HoldsHandle(h, repeated) == IF repeated THEN h.used ELSE h.fresh > 0
CallHandle(h, repeated) ==
  IF repeated THEN h ELSE [fresh |-> h.fresh - 1, used |-> TRUE]

Listen(c, l, keep) ==
  /\ Idle
  /\ keep => handles[c][l.id].fresh < MaxHandles
  /\ IF ListenThrows(listeners[c], l)
     THEN /\ UNCHANGED <<listeners, handles, order>>
          /\ ev' = [Event("listen", c, l, NoListener, listeners[c], state[c], stack)
                      EXCEPT !.error = TRUE]
     ELSE /\ listeners' = [listeners EXCEPT ![c] = SetAdd(@, l)]
          /\ handles' = [handles EXCEPT ![c][l.id] = KeepHandle(@, keep)]
          /\ order' = [order EXCEPT ![c] = Append(Without(@, l), l)]
          /\ ev' = Event("listen", c, l, NoListener, listeners'[c], state[c], stack)
  /\ UNCHANGED <<state, stack, exc, comp, todo>>

Unsubscribe(c, l, repeated) ==
  /\ Idle
  /\ HoldsHandle(handles[c][l.id], repeated)
  /\ listeners' = [listeners EXCEPT ![c] = Settle(stack, c, SetDelete(@, l))]
  /\ handles' = [handles EXCEPT ![c][l.id] = CallHandle(@, repeated)]
  /\ order' = [order EXCEPT ![c] = Without(@, l)]
  /\ ev' = [Event("unsubscribe", c, l, NoListener, listeners'[c], state[c], stack)
              EXCEPT !.repeated = repeated]
  /\ UNCHANGED <<state, stack, exc, comp, todo>>

\* update(cb): produce the next snapshot, then notify when it is another object.
Update(c, u) ==
  /\ Idle
  /\ LET next == Produce(state[c], u, FreshRef)
     IN /\ state' = [state EXCEPT ![c] = next]
        /\ stack' = IF Notifies(state[c], next)
                    THEN Append(stack, Frame(c, next, Range(order[c])))
                    ELSE stack
  /\ ev' = [Event("update", c, NoListener, NoListener, listeners[c], state'[c], stack')
              EXCEPT !.noedit = NoEdit(state[c], u), !.writes = Len(u)]
  /\ UNCHANGED <<listeners, exc, handles, order, comp, todo>>

AfterThrowPartial(prev, u, r) ==
  LET d == RunUpdater(Draft(prev), u)
  IN IF d.modified THEN Snap(r, d.count, d.otherField) ELSE prev

\* `this.state = produce(prevState, cb)` when cb throws after the writes u:
\* produce throws and the assignment does not happen
AfterThrow(prev, u, r) == prev

\* update(cb) with an updater that throws after its writes
UpdateThrows(c, u) ==
  /\ Idle
  /\ state' = [state EXCEPT ![c] = AfterThrow(state[c], u, FreshRef)]
  /\ ev' = [Event("update", c, NoListener, NoListener, listeners[c], state'[c], stack)
              EXCEPT !.noedit = NoEdit(state[c], u), !.error = TRUE]
  /\ UNCHANGED <<listeners, stack, exc, handles, order, comp, todo>>

\* ------------------------------------------------------ the for-of loop
\* The loop body runs for the next entry: the listener is called with
\* this.state as it is now.  What a plain listener does is the application's
\* choice: return, throw, call an unsubscribe function, listen, or update.
ListenerArgProduced(f) == [state[f.c] EXCEPT !.ref = f.produced]

\* `listener(this.state)`: the argument is this.state read at the call
ListenerArg(f) == state[f.c]

Calling(l) ==
  /\ Waving
  /\ NextLive(listeners[Top.c], Top.idx) # 0
  /\ listeners[Top.c][NextLive(listeners[Top.c], Top.idx)].l = l

Called(l) == Invoked(stack, Top.c, l, ListenerArg(Top), NextLive(listeners[Top.c], Top.idx))

CallEvent(op, l2, l, lsAfter, snapAfter, stkAfter) ==
  [Event(op, Top.c, l2, l, lsAfter, snapAfter, stkAfter)
     EXCEPT !.ordered = Ordered(Top, order[Top.c], l),
            !.subscribed = l \in Range(order[Top.c]),
            !.current = ListenerArg(Top).ref = state[Top.c].ref]

InvokeReturn(l) ==
  /\ Calling(l)
  /\ stack' = Called(l)
  /\ ev' = CallEvent("return", l, l, listeners[Top.c], state[Top.c], stack)
  /\ UNCHANGED <<state, listeners, exc, handles, order, comp, todo>>

InvokeThrow(l) ==
  /\ Calling(l)
  /\ stack' = Called(l)
  /\ exc' = TRUE
  /\ ev' = [CallEvent("throw", l, l, listeners[Top.c], state[Top.c], stack)
              EXCEPT !.error = TRUE]
  /\ UNCHANGED <<state, listeners, handles, order, comp, todo>>

InvokeUnsubscribe(l, l2, repeated) ==
  /\ Calling(l)
  /\ HoldsHandle(handles[Top.c][l2.id], repeated)
  /\ listeners' = [listeners EXCEPT ![Top.c] = SetDelete(@, l2)]
  /\ handles' = [handles EXCEPT ![Top.c][l2.id] = CallHandle(@, repeated)]
  /\ order' = [order EXCEPT ![Top.c] = Without(@, l2)]
  /\ stack' = Forget(Touched(Called(l)), Top.c, l2)
  /\ ev' = [CallEvent("unsubscribe", l2, l, listeners'[Top.c], state[Top.c], stack)
              EXCEPT !.repeated = repeated]
  /\ UNCHANGED <<state, exc, comp, todo>>

InvokeListen(l, l2, keep) ==
  /\ Calling(l)
  /\ keep => handles[Top.c][l2.id].fresh < MaxHandles
  /\ Len(listeners[Top.c]) < MaxEntries
  /\ IF ListenThrows(listeners[Top.c], l2)
     THEN /\ exc' = TRUE
          /\ stack' = Called(l)
          /\ UNCHANGED <<listeners, handles, order>>
          /\ ev' = [CallEvent("listen", l2, l, listeners[Top.c], state[Top.c], stack)
                      EXCEPT !.error = TRUE]
     ELSE /\ listeners' = [listeners EXCEPT ![Top.c] = SetAdd(@, l2)]
          /\ handles' = [handles EXCEPT ![Top.c][l2.id] = KeepHandle(@, keep)]
          /\ order' = [order EXCEPT ![Top.c] = Append(Without(@, l2), l2)]
          /\ stack' = Touched(Called(l))
          /\ UNCHANGED exc
          /\ ev' = CallEvent("listen", l2, l, listeners'[Top.c], state[Top.c], stack)
  /\ UNCHANGED <<state, comp, todo>>

InvokeUpdate(l, u) ==
  /\ Calling(l)
  /\ Len(stack) < MaxDepth
  /\ LET c == Top.c
         next == Produce(state[c], u, FreshRef)
     IN /\ state' = [state EXCEPT ![c] = next]
        /\ stack' = IF Notifies(state[c], next)
                    THEN Append(Touched(Called(l)), Frame(c, next, Range(order[c])))
                    ELSE Touched(Called(l))
  /\ ev' = [CallEvent("update", NoListener, l, listeners[Top.c], state'[Top.c], stack')
              EXCEPT !.noedit = NoEdit(state[Top.c], u), !.writes = Len(u)]
  /\ UNCHANGED <<listeners, exc, handles, order, comp, todo>>

\* a listener calls update with an updater that throws; it does not catch
InvokeUpdateThrows(l, u) ==
  /\ Calling(l)
  /\ state' = [state EXCEPT ![Top.c] = AfterThrow(state[Top.c], u, FreshRef)]
  /\ stack' = Touched(Called(l))
  /\ exc' = TRUE
  /\ ev' = [CallEvent("update", NoListener, l, listeners[Top.c], state'[Top.c], stack)
              EXCEPT !.noedit = NoEdit(state[Top.c], u), !.error = TRUE]
  /\ UNCHANGED <<listeners, handles, order, comp, todo>>

\* The loop ends and update returns.
WaveReturn ==
  /\ Waving
  /\ NextLive(listeners[Top.c], Top.idx) = 0
  /\ stack' = SubSeq(stack, 1, Len(stack) - 1)
  /\ listeners' = [listeners EXCEPT ![Top.c] = Settle(stack', Top.c, @)]
  /\ ev' = [Event("returned", Top.c, NoListener, NoListener, listeners'[Top.c],
                  state[Top.c], stack') EXCEPT !.call = Top]
  /\ UNCHANGED <<state, exc, handles, order, comp, todo>>

\* An exception leaves the innermost update call; its caller, a listener of
\* the call below, does not catch it.
Unwind ==
  /\ exc
  /\ stack # <<>>
  /\ stack' = SubSeq(stack, 1, Len(stack) - 1)
  /\ listeners' = [listeners EXCEPT ![Top.c] = Settle(stack', Top.c, @)]
  /\ exc' = (stack' # <<>>)
  /\ ev' = [Event("unwind", Top.c, NoListener, NoListener, listeners'[Top.c],
                  state[Top.c], stack')
              EXCEPT !.error = TRUE, !.call = [Top EXCEPT !.threw = TRUE]]
  /\ UNCHANGED <<state, handles, order, comp, todo>>

\* ------------------------------------------------------------ view binding
\* useStateSingleton(stateSingleton, selector) called by a component on each
\* render.  React is the legacy root of the tests (ReactDOM.render): a state
\* update made outside a React batch renders synchronously; setting a state
\* hook to the value it holds (Object.is) bails out without rendering; the
\* effects of a render run later, and always before the component renders
\* again or unmounts.
Bindings == 1..MaxBindings
Selectors == {"selector1", "selector2", "selectOther"}
EqualityFns == {"defaultEquality", "equality1", "equality3"}

\* selector1 and selector2 are two functions returning state.count,
\* selectOther returns state.otherField
Select(s, snap) == IF s = "selectOther" THEN snap.otherField ELSE snap.count

\* the equality functions a component has at hand: none (the default),
\* equality1 is a === b, equality3 returns true
EqualityFn(e, a, b) == IF e = "equality3" THEN TRUE ELSE a = b

NoSub == [c |-> "none", l |-> NoListener]
NoDeps == [c |-> "none", sel |-> "none"]
NoComp ==
  [mounted |-> FALSE, c |-> "none", sel |-> "none", eq |-> "none",
   value |-> 0,            \* currentValue, the state hook
   effPending |-> FALSE,   \* the last render's effect has not run yet
   deps |-> NoDeps,        \* [stateSingleton, selector] of the effect that ran last
   sub |-> NoSub,          \* the effect's cleanup: where it listens, with which listener
   actKind |-> "none",     \* history: what the last activation changed
   actListens |-> 0,       \* history: listen calls of the last activation
   actUnsubs |-> 0,        \* history: unsubscribe calls of the last activation
   actSelects |-> 0]       \* history: selector calls of the last activation

\* The listener `(nextState) => { setCurrentValue(selector(nextState)) }` is a
\* new function each time the effect runs (gen tells them apart); it closes
\* over the selector of that render.
HookListener(b, sel, g) == [kind |-> "hook", id |-> b, gen |-> g, sel |-> sel]
UsedListeners ==
  UNION {{listeners[c][i].l : i \in 1..Len(listeners[c])} : c \in Containers}
FreshGen(b, sel) ==
  CHOOSE g \in 0..(Cardinality(UsedListeners) + 1) :
    /\ HookListener(b, sel, g) \notin UsedListeners
    /\ \A h \in 0..(g - 1) : HookListener(b, sel, h) \in UsedListeners

CallbackValueIsState(l, arg) == arg.ref

\* the listener's body: the value it hands to setCurrentValue
CallbackValue(l, arg) == Select(l.sel, arg)

\* React's state hook bails out when the value is the one it holds
SetStateBails(cur, v) == v = cur

DepsChangedSelectorOnly(cb) == cb.deps.sel # cb.sel

\* useEffect's dependency list [stateSingleton, selector] differs from the
\* one of the effect that ran last
DepsChanged(cb) == cb.deps # [c |-> cb.c, sel |-> cb.sel]

SettleAll(stk, ls) == [c \in Containers |-> Settle(stk, c, ls[c])]

EffectValueOfCount(cb) == state[cb.c].count

EffectValueStale(cb) == cb.value

\* the effect's first statement: setCurrentValue(selector(stateSingleton.getState()))
EffectValue(cb) == Select(cb.sel, state[cb.c])

EffectListenerShared(b, cb) == HookListener(1, cb.sel, 0)

\* the listener the effect passes to listen: a closure created by this run
EffectListener(b, cb) == HookListener(b, cb.sel, FreshGen(b, cb.sel))

\* The effect of component b (record cb) runs: the cleanup of the previous
\* effect unsubscribes, then setCurrentValue(selector(getState())) and listen.
RunEffect(b, cb, stk) ==
  LET had == cb.sub # NoSub
      ls1 == IF had THEN [listeners EXCEPT ![cb.sub.c] = SetDelete(@, cb.sub.l)]
             ELSE listeners
      ord1 == IF had THEN [order EXCEPT ![cb.sub.c] = Without(@, cb.sub.l)] ELSE order
      stk1 == IF had THEN Forget(stk, cb.sub.c, cb.sub.l) ELSE stk
      l == EffectListener(b, cb)
  IN [comp |-> [cb EXCEPT !.value = EffectValue(cb),
                          !.effPending = FALSE,
                          !.deps = [c |-> cb.c, sel |-> cb.sel],
                          !.sub = [c |-> cb.c, l |-> l],
                          !.actListens = @ + 1,
                          !.actSelects = @ + 1,
                          !.actUnsubs = IF had THEN @ + 1 ELSE @],
      listeners |-> SettleAll(stk, [ls1 EXCEPT ![cb.c] = SetAdd(@, l)]),
      order |-> [ord1 EXCEPT ![cb.c] = Append(@, l)],
      stack |-> Touched(stk1),
      threw |-> ListenThrows(ls1[cb.c], l)]   \* listen's invariant failed

HookEvent(op, b, c, renders) ==
  [Event(op, c, NoListener, NoListener, listeners[c], state[c], stack)
     EXCEPT !.b = b, !.renders = renders, !.eq = comp[b].eq]

\* first render: useState(() => selector(stateSingleton.getState()))
Mount(b, c, sel, eq) ==
  /\ Idle
  /\ ~comp[b].mounted
  /\ comp' = [comp EXCEPT ![b] =
                [NoComp EXCEPT !.mounted = TRUE, !.c = c, !.sel = sel, !.eq = eq,
                               !.value = Select(sel, state[c]),
                               !.effPending = TRUE, !.actKind = "mount",
                               !.actSelects = 1]]
  /\ ev' = HookEvent("mount", b, c, 1)
  /\ UNCHANGED <<state, listeners, stack, exc, handles, order, todo>>

ActKind(cb, c, sel, eq) ==
  CASE cb.c # c -> "container"
    [] cb.c = c /\ cb.sel # sel /\ cb.eq = eq -> "selector"
    [] cb.c = c /\ cb.sel = sel /\ cb.eq # eq -> "equality"
    [] cb.c = c /\ cb.sel # sel /\ cb.eq # eq -> "both"
    [] OTHER -> "same"

\* the parent renders the component again with these props: the hook
\* returns currentValue and the effect is scheduled when its deps changed
Rerender(b, c, sel, eq) ==
  /\ Idle
  /\ comp[b].mounted
  /\ ~comp[b].effPending
  /\ LET cb == [comp[b] EXCEPT !.c = c, !.sel = sel, !.eq = eq,
                               !.actKind = ActKind(comp[b], c, sel, eq),
                               !.actListens = 0, !.actUnsubs = 0, !.actSelects = 0]
     IN comp' = [comp EXCEPT ![b] = [cb EXCEPT !.effPending = DepsChanged(cb)]]
  /\ ev' = HookEvent("rerender", b, c, 1)
  /\ UNCHANGED <<state, listeners, stack, exc, handles, order, todo>>

\* the pending effect runs; a changed currentValue renders the component again
FlushEffects(b) ==
  /\ Idle
  /\ comp[b].effPending
  /\ LET r == RunEffect(b, comp[b], stack)
     IN /\ comp' = [comp EXCEPT ![b] = r.comp]
        /\ listeners' = r.listeners
        /\ order' = r.order
        /\ ev' = [HookEvent("effects", b, comp[b].c,
                            IF SetStateBails(comp[b].value, r.comp.value) THEN 0 ELSE 1)
                    EXCEPT !.error = r.threw]
  /\ UNCHANGED <<state, stack, exc, handles, todo>>

\* the component unmounts: the effect's cleanup unsubscribes
Unmount(b) ==
  /\ Idle
  /\ comp[b].mounted
  /\ ~comp[b].effPending
  /\ LET sub == comp[b].sub
     IN /\ listeners' = [listeners EXCEPT ![sub.c] = Settle(stack, sub.c, SetDelete(@, sub.l))]
        /\ order' = [order EXCEPT ![sub.c] = Without(@, sub.l)]
  /\ comp' = [comp EXCEPT ![b] = NoComp]
  /\ ev' = HookEvent("unmount", b, comp[b].c, 0)
  /\ UNCHANGED <<state, stack, exc, handles, todo>>

\* The for-of loop calls a binding's listener: setCurrentValue(selector(nextState)).
\* A changed value renders the component; React runs its pending effect first.
InvokeHook ==
  /\ Waving
  /\ \E l \in SetOf(listeners[Top.c]) :
       /\ Calling(l)
       /\ l.kind = "hook"
       /\ LET b == l.id
              cb == comp[b]
              arg == ListenerArg(Top)
              v == CallbackValue(l, arg)
              bails == SetStateBails(cb.value, v)
              r == RunEffect(b, [cb EXCEPT !.value = v], Called(l))
              after == IF bails THEN cb
                       ELSE IF cb.effPending THEN r.comp
                       ELSE [cb EXCEPT !.value = v]
              flush == ~bails /\ cb.effPending
          IN /\ comp' = [comp EXCEPT ![b] = after]
             /\ listeners' = IF flush THEN r.listeners ELSE listeners
             /\ order' = IF flush THEN r.order ELSE order
             /\ stack' = IF flush THEN r.stack ELSE Called(l)
             /\ ev' = [CallEvent("notify", l, l, listeners[Top.c], arg, stack)
                         EXCEPT !.b = b, !.eq = cb.eq,
                                !.error = flush /\ r.threw,
                                !.quiet = ~cb.effPending,
                                !.changed = Select(cb.sel, arg) # cb.value,
                                !.eqEqual = EqualityFn(cb.eq, Select(cb.sel, arg), cb.value),
                                !.renders = IF bails THEN 0 ELSE 1,
                                !.sameShown = after.value = cb.value,
                                !.showsNew = after.value = Select(cb.sel, arg)]
  /\ UNCHANGED <<state, exc, handles, todo>>

\* ------------------------------------------------------------- nested state
\* A container holding the todo state of the test "it works":
\* { todos: [todo, ...], visibilityFilter }, each todo an object { completed }.
\* Every object (the root, the todos array, each todo) carries its reference.
Todo(r, done) == [ref |-> r, completed |-> done]
TodoState(r, filter, tr, items) ==
  [ref |-> r, visibilityFilter |-> filter, todos |-> [ref |-> tr, items |-> items]]

\* the writes of an updater: state.visibilityFilter = v, and
\* todo.completed = v on the i-th todo reached through state.todos
TodoWrites ==
  [f : {"visibilityFilter"}, i : {0}, v : Values]
    \cup [f : {"completed"}, i : 1..MaxTodos, v : Values]
TodoUpdaters == SeqsUpTo(TodoWrites, MaxEdits)

\* immer: the drafts of the root, of the todos array and of each todo.  A
\* write to a draft marks it and every draft above it modified.
TodoDraft(base) ==
  [modified |-> FALSE, todosModified |-> FALSE,
   itemModified |-> [i \in 1..MaxTodos |-> FALSE],
   visibilityFilter |-> base.visibilityFilter,
   completed |-> [i \in 1..MaxTodos |-> base.todos.items[i].completed]]

TodoDraftSetDeep(d, w) ==
  IF w.f = "visibilityFilter"
  THEN [d EXCEPT !.visibilityFilter = w.v, !.modified = TRUE,
                 !.todosModified = TRUE,
                 !.itemModified = [i \in 1..MaxTodos |-> TRUE]]
  ELSE [d EXCEPT !.completed[w.i] = w.v, !.modified = TRUE,
                 !.todosModified = TRUE,
                 !.itemModified = [i \in 1..MaxTodos |-> TRUE]]

TodoDraftSet(d, w) ==
  IF w.f = "visibilityFilter"
  THEN IF ~d.modified /\ d.visibilityFilter = w.v THEN d
       ELSE [d EXCEPT !.visibilityFilter = w.v, !.modified = TRUE]
  ELSE IF ~d.itemModified[w.i] /\ d.completed[w.i] = w.v THEN d
       ELSE [d EXCEPT !.completed[w.i] = w.v, !.itemModified[w.i] = TRUE,
                      !.todosModified = TRUE, !.modified = TRUE]

RECURSIVE RunTodoUpdater(_, _)
RunTodoUpdater(d, u) ==
  IF u = <<>> THEN d ELSE RunTodoUpdater(TodoDraftSet(d, Head(u)), Tail(u))

\* references of the objects of a todo state, and the k-th unused one
TodoRefs(t) ==
  {t.ref, t.todos.ref} \cup {t.todos.items[i].ref : i \in 1..MaxTodos}
NewTodoRef(t, k) ==
  LET unused == (0..(2 * (MaxTodos + 2))) \ TodoRefs(t)
  IN CHOOSE x \in unused : Cardinality({y \in unused : y < x}) = k - 1

\* immer produce on the todo state: every modified draft becomes a new
\* object, every other object of the base is kept as it is.
ProduceTodo(base, u) ==
  LET d == RunTodoUpdater(TodoDraft(base), u)
  IN IF ~d.modified THEN base
     ELSE [ref |-> NewTodoRef(base, 1),
           visibilityFilter |-> d.visibilityFilter,
           todos |->
             IF ~d.todosModified THEN base.todos
             ELSE [ref |-> NewTodoRef(base, 2),
                   items |-> [i \in 1..MaxTodos |->
                                IF d.itemModified[i]
                                THEN Todo(NewTodoRef(base, 2 + i), d.completed[i])
                                ELSE base.todos.items[i]]]]

\* The field values of a todo state, and what the updater's assignments make
\* of them when carried out one after the other on a plain object.
TodoValues(t) ==
  [visibilityFilter |-> t.visibilityFilter,
   completed |-> [i \in 1..MaxTodos |-> t.todos.items[i].completed]]
RECURSIVE Assigned(_, _)
Assigned(vals, u) ==
  IF u = <<>> THEN vals
  ELSE Assigned(IF Head(u).f = "visibilityFilter"
                THEN [vals EXCEPT !.visibilityFilter = Head(u).v]
                ELSE [vals EXCEPT !.completed[Head(u).i] = Head(u).v],
                Tail(u))
\* the todos the updater writes to
Written(u) == {u[k].i : k \in {j \in 1..Len(u) : u[j].f = "completed"}}

\* update(cb) on the todo container; it has no listeners, the loop is empty
UpdateTodo(u) ==
  /\ Idle
  /\ todo' = ProduceTodo(todo, u)
  /\ ev' = [Event("updateTodo", "A", NoListener, NoListener, listeners["A"], state["A"], stack)
              EXCEPT !.writes = Len(u),
                     !.sameState = todo'.ref = todo.ref,
                     !.exact = TodoValues(todo') = Assigned(TodoValues(todo), u),
                     !.touched = Written(u),
                     !.shared =
                       /\ \A i \in (1..MaxTodos) \ Written(u) :
                            todo'.todos.items[i].ref = todo.todos.items[i].ref
                       /\ Written(u) = {} => todo'.todos.ref = todo.todos.ref]
  /\ UNCHANGED <<state, listeners, stack, exc, handles, comp, order>>

\* the listeners of component b in the Set of container c
HookListenersOf(b, c) == {l \in SetOf(listeners[c]) : l.kind = "hook" /\ l.id = b}

\* component b is mounted and the effect of its last render has run
Settled(b) == comp[b].mounted /\ ~comp[b].effPending

\* ---------------------------------------------------------- specification
Init ==
  /\ state = [c \in Containers |-> Snap(IF c = "A" THEN 0 ELSE 1, 0, 0)]
  /\ listeners = [c \in Containers |-> <<>>]
  /\ stack = <<>>
  /\ exc = FALSE
  /\ handles = [c \in Containers |-> [i \in 1..MaxListeners |-> [fresh |-> 0, used |-> FALSE]]]
  /\ comp = [b \in Bindings |-> NoComp]
  /\ todo = TodoState(0, 0, 1, [i \in 1..MaxTodos |-> Todo(1 + i, 0)])
  /\ order = [c \in Containers |-> <<>>]
  /\ ev = [Event("init", "A", NoListener, NoListener, <<>>, Snap(0, 0, 0), <<>>)
             EXCEPT !.sameRegistry = TRUE, !.sameState = TRUE, !.wave = FALSE,
                    !.registered = FALSE]

Next ==
  \/ \E c \in StoreContainers, l \in Fns, keep \in BOOLEAN : Listen(c, l, keep)
  \/ \E c \in StoreContainers, l \in Fns, r \in BOOLEAN : Unsubscribe(c, l, r)
  \/ \E c \in StoreContainers, u \in Updaters : Update(c, u)
  \/ \E l \in Fns : InvokeReturn(l)
  \/ \E l \in Fns : InvokeThrow(l)
  \/ \E l \in Fns, l2 \in Fns, r \in BOOLEAN : InvokeUnsubscribe(l, l2, r)
  \/ \E l \in Fns, l2 \in Fns, keep \in BOOLEAN : InvokeListen(l, l2, keep)
  \/ \E l \in Fns, u \in Updaters : InvokeUpdate(l, u)
  \/ \E c \in StoreContainers, u \in Updaters : UpdateThrows(c, u)
  \/ \E l \in Fns, u \in Updaters : InvokeUpdateThrows(l, u)
  \/ WaveReturn
  \/ Unwind

Spec == Init /\ [][Next]_vars

\* the updaters of the hook's users write one field: state.otherField++,
\* state.count++, state.count = state.count
HookUpdaters == {u \in Updaters : Len(u) <= 1}

\* One component using the hook on the containers A and B with every
\* selector and equality function, and the application updating the containers.
SingleBinding == {1}
NextHook ==
  \/ \E b \in SingleBinding, c \in Containers, sel \in Selectors, eq \in EqualityFns :
       Mount(b, c, sel, eq)
  \/ \E b \in SingleBinding, c \in Containers, sel \in Selectors, eq \in EqualityFns :
       Rerender(b, c, sel, eq)
  \/ \E b \in SingleBinding : FlushEffects(b)
  \/ \E b \in SingleBinding : Unmount(b)
  \/ \E c \in Containers, u \in HookUpdaters : Update(c, u)
  \/ InvokeHook
  \/ WaveReturn

SpecHook == Init /\ [][NextHook]_vars

\* Several components using the hook on the same containers, with the
\* selectors selector1 and selector2 and no equality function, and the
\* application writing state.count of container A.
SharedSelectors == {"selector1", "selector2"}
CountUpdaters == {u \in HookUpdaters : Len(u) = 1 /\ u[1].f = "count"}
NextShared ==
  \/ \E b \in Bindings, c \in Containers, sel \in SharedSelectors :
       Mount(b, c, sel, "defaultEquality")
  \/ \E b \in Bindings, c \in Containers, sel \in SharedSelectors :
       Rerender(b, c, sel, "defaultEquality")
  \/ \E b \in Bindings : FlushEffects(b)
  \/ \E b \in Bindings : Unmount(b)
  \/ \E c \in StoreContainers, u \in CountUpdaters : Update(c, u)
  \/ InvokeHook
  \/ WaveReturn

SpecShared == Init /\ [][NextShared]_vars

\* The application updating the container of the todo state.
NextTodo == \E u \in TodoUpdaters : UpdateTodo(u)

SpecTodo == Init /\ [][NextTodo]_vars

\* ------------------------------------------------------------------ claims
\* C1: an update call starts a notification wave if and only if the snapshot
\* it produces is another object than the snapshot held before the call.
C1_NotifyIffDistinct == ev.op = "update" => (ev.wave <=> ~ev.sameState)
C1_Witness ==
  ev.op = "update" /\ ev.wave /\ ~ev.sameState /\ listeners[ev.c] # <<>>

C3_NoEditNoNotify ==
  (ev.op = "update" /\ ev.noedit) => (ev.sameState /\ ~ev.wave)
C3_Witness ==
  ev.op = "update" /\ ev.noedit /\ ev.writes > 0 /\ listeners[ev.c] # <<>>

\* C4: a listener is invoked only while registered: not after its unsubscribe
\* function was called (also in the rest of a wave in progress) until it is
\* registered again.
C4_NoCallAfterUnsubscribe == ev.invoked # NoListener => ev.subscribed
C4_Witness == ev.op = "returned" /\ ev.call.pending # {}

\* C5 as claimed: calling an unsubscribe function again changes neither the
\* registry nor the snapshot and raises no error, whatever happened since.
C5_RepeatedUnsubscribeNoOp ==
  (ev.op = "unsubscribe" /\ ev.repeated) =>
    (ev.sameRegistry /\ ev.sameState /\ ~ev.error)

\* C6: listen(L) with L registered fails with an error and changes neither
\* registry nor snapshot; with L not registered it succeeds and registers L.
C6_ListenDuplicateFails ==
  ev.op = "listen" =>
    IF ev.registered
    THEN ev.error /\ ev.sameRegistry /\ ev.sameState
    ELSE ~ev.error /\ ev.inSetAfter /\ ev.l \in Range(order[ev.c])
C6_Witness == ev.op = "listen" /\ ev.registered /\ ev.error

\* C7: when a listener is invoked in a wave, every listener whose active
\* registration is older has been invoked in that wave already.
C7_RegistrationOrder == ev.invoked # NoListener => ev.ordered
C7_Witness ==
  /\ ev.invoked = Fn(1) /\ ev.op = "return"
  /\ order[ev.c] = <<Fn(2), Fn(1)>>
  /\ handles[ev.c][1].used

C9_EqualityFnGates ==
  (ev.op = "notify" /\ ev.quiet /\ ev.eq # "defaultEquality") =>
    IF ev.eqEqual
    THEN ev.renders = 0 /\ ev.sameShown
    ELSE ev.renders = 1 /\ ev.showsNew

\* C10: an activation of a mounted binding that changes only the selector
\* or only the equality function, with the same container, calls neither
\* an unsubscribe function nor listen.
C10_NoResubscribe ==
  \A b \in Bindings :
    comp[b].actKind \in {"selector", "equality"} =>
      comp[b].actListens = 0 /\ comp[b].actUnsubs = 0

\* C11: once a component rendered with another container has run its effect,
\* it has one listener on that container and none on any other; a wave on
\* another container calls no listener of it and leaves its hook state as it
\* was, and when a wave on its container ends it shows the selection of that
\* container's snapshot.
C11_SwitchContainer ==
  /\ [](\A b \in Bindings : Settled(b) =>
          /\ \A c \in Containers :
               Cardinality(HookListenersOf(b, c)) = IF c = comp[b].c THEN 1 ELSE 0
          /\ (ev.op = "returned" /\ ev.c = comp[b].c) =>
               comp[b].value = Select(comp[b].sel, state[comp[b].c]))
  /\ [][\A b \in Bindings :
          (Settled(b) /\ ev'.op \in {"update", "notify", "returned"} /\ ev'.c # comp[b].c)
            => (comp'[b] = comp[b] /\ ~(ev'.invoked.kind = "hook" /\ ev'.invoked.id = b))]_vars
C11_Witness ==
  /\ comp[1].actKind = "container" /\ comp[1].c = "B" /\ Settled(1)
  /\ ev.op = "returned" /\ ev.c = "A" /\ state["A"].count # comp[1].value

\* C12: when no effect is pending, the Set of each container holds exactly
\* one listener of every mounted component bound to it and no listener of
\* any other component.
C12_OneListenerPerBinding ==
  (\A b \in Bindings : ~comp[b].effPending) =>
    \A b \in Bindings, c \in Containers :
      Cardinality(HookListenersOf(b, c)) =
        IF comp[b].mounted /\ comp[b].c = c THEN 1 ELSE 0
C12_Witness ==
  /\ comp[1].actKind = "selector" /\ comp[1].actListens = 1 /\ Settled(1)
  /\ Cardinality(HookListenersOf(1, comp[1].c)) = 1

\* C13: when a render of a component and the effect it scheduled have run
\* (with the render the effect's setCurrentValue requests), the component
\* shows the selector of that render applied to the current snapshot of the
\* container of that render.
C13_ActivationShowsCurrent ==
  ((\/ ev.op \in {"effects", "rerender"}
    \/ (ev.op = "notify" /\ ~ev.quiet /\ ev.renders = 1)) /\ Settled(ev.b)) =>
    comp[ev.b].value = Select(comp[ev.b].sel, state[comp[ev.b].c])
C13_Witness ==
  /\ ev.op = "effects" /\ ev.renders = 1 /\ Settled(ev.b)
  /\ comp[ev.b].actKind \in {"selector", "container"}
  /\ comp[ev.b].value = 1

\* C14 as claimed: the listener of a component that is called in a wave
\* derives the selection with the selector of the component's last render.
C14_CurrentSelector ==
  ev.op = "notify" => ev.invoked.sel = comp[ev.b].sel

\* C19: when the effect of a component's first render has run, the component
\* shows its selector applied to the container's current snapshot, also when
\* the container was edited between that render and the effect.
C19_NoLostUpdate ==
  (ev.op = "effects" /\ comp[ev.b].actKind = "mount") =>
    comp[ev.b].value = Select(comp[ev.b].sel, state[comp[ev.b].c])
C19_Witness ==
  /\ ev.op = "effects" /\ comp[ev.b].actKind = "mount" /\ ev.renders = 1
  /\ comp[ev.b].value = state[comp[ev.b].c].otherField
  /\ comp[ev.b].value # state[comp[ev.b].c].count

\* C15: after update(u) the snapshot holds the prior field values with the
\* assignments of u carried out, and every todo u did not write to (and the
\* todos array, when u wrote to no todo) is the object it was before.
C15_ExactEditsSharedRest ==
  ev.op = "updateTodo" => (ev.exact /\ ev.shared)
C15_Witness ==
  /\ ev.op = "updateTodo" /\ ev.writes = 2 /\ ev.touched = {1} /\ ~ev.sameState
  /\ todo.todos.items[1].completed = 1 /\ todo.visibilityFilter = 1
  /\ todo.todos.items[2].ref = 3

\* C16: when a listener throws, the exception leaves every update call in
\* progress without another listener being invoked, and the snapshot is not
\* rolled back: after an otherwise undisturbed wave it is the one the update
\* produced.
C16_ListenerThrowAborts ==
  /\ [][exc => (ev'.op = "unwind" /\ ev'.invoked = NoListener /\ ev'.error)]_vars
  /\ [][(ev'.op \in {"throw", "unwind"}) => state' = state]_vars
  /\ []((ev.op = "throw") => (exc /\ ev.error))
  /\ []((ev.op = "unwind" /\ ev.call.clean) => state[ev.c].ref = ev.call.produced)
C16_Witness ==
  /\ ev.op = "unwind" /\ ev.call.clean /\ ev.call.pending # {}
  /\ stack = <<>> /\ ~exc /\ state[ev.c].ref = ev.call.produced

\* C17: an update that a listener calls and that makes an edit starts a wave
\* over all registered listeners; while it is in progress the outer loop
\* neither advances nor returns, and when it returns undisturbed it has
\* called each of them.
C17_NestedWaveFirst ==
  /\ []((ev.op = "update" /\ ev.invoked # NoListener /\ ~ev.sameState) =>
          (ev.wave /\ Len(stack) >= 2 /\ Top.idx = 1
             /\ Top.reg = Range(order[ev.c]) /\ Top.pending = Top.reg))
  /\ []((ev.op = "returned" /\ stack # <<>> /\ ev.call.clean) =>
          (ev.call.pending = {} /\ ~ev.call.bad))
  /\ [][Len(stack) >= 2 =>
          (Len(stack') >= Len(stack) - 1 /\ stack'[1].idx = stack[1].idx)]_vars
C17_Witness ==
  /\ ev.op = "returned" /\ Len(stack) = 1 /\ ev.call.clean
  /\ Cardinality(ev.call.reg) = 2
  /\ NextLive(listeners[Top.c], Top.idx) # 0

\* C18: an update whose updater throws raises the error, leaves the snapshot
\* the object it was and the registry as it was, starts no wave and invokes
\* no listener.
C18_UpdaterThrowKeepsState ==
  (ev.op = "update" /\ ev.error) =>
    (ev.sameState /\ ev.sameRegistry /\ ~ev.wave
       /\ (ev.invoked = NoListener => Idle))
C18_Witness ==
  /\ ev.op = "update" /\ ev.error /\ ~ev.noedit /\ ev.invoked = NoListener
  /\ listeners[ev.c] # <<>>

\* C20: every listener call is handed the snapshot the container holds at
\* the moment of the call.
C20_ArgumentIsCurrent == ev.invoked # NoListener => ev.current
C20_Witness ==
  /\ ev.op = "return" /\ ev.current /\ stack # <<>>
  /\ Top.produced # state[ev.c].ref

\* C22: when a wave ends by the loop running out, every listener registered
\* on the container, those registered by listeners during the wave included,
\* has been invoked in it under its current registration; each was invoked
\* after the listeners registered before it and with the current snapshot.
C22_AddedListenerInvoked ==
  /\ ev.op = "returned" => Range(order[ev.c]) \subseteq ev.call.visited
  /\ (ev.invoked # NoListener /\ ev.invoked \notin Top.reg) =>
       (ev.ordered /\ ev.current)
C22_Witness ==
  /\ ev.op = "returned" /\ stack = <<>>
  /\ Range(order[ev.c]) \ ev.call.reg # {}
  /\ Range(order[ev.c]) \subseteq ev.call.visited
  /\ Cardinality(ev.call.reg) = 1

\* C23 as claimed: when the first render of a component and its effect have
\* run, the selector was called once and listen was called once.
C23_FirstActivationCounts ==
  (ev.op = "effects" /\ comp[ev.b].actKind = "mount") =>
    (comp[ev.b].actSelects = 1 /\ comp[ev.b].actListens = 1)

\* C21: no listen call made by an effect of a component fails: the listener
\* it passes is not registered on the container at that moment.
C21_NoDuplicateListen ==
  (ev.op = "effects" \/ (ev.op = "notify" /\ ~ev.quiet /\ ev.renders = 1)) => ~ev.error
C21_Witness ==
  /\ ev.op = "effects" /\ ~ev.error
  /\ \A b \in Bindings :
       Settled(b) /\ comp[b].c = "A" /\ comp[b].sel = "selector1"
  /\ comp[ev.b].actKind = "mount" /\ Cardinality(SetOf(listeners["A"])) = 2
====
